---- MODULE Spec2Model ----
(***************************************************************************)
(* Model of the WebSocket gateway of src/src/ws.rs: the token store and    *)
(* the session registry behind one tokio Mutex (WebSocketServerInner), the *)
(* upgrade handler ws_handler with its two spawned tasks (heartbeat and    *)
(* message loop), the expiry task spawned by obtain_token, and broadcast.  *)
(*                                                                         *)
(* Every operation of WebSocketServer takes `inner.lock().await` first.    *)
(* All of them but broadcast run to their end without another await, so    *)
(* each is one action that is enabled only while the mutex is free.        *)
(* broadcast keeps the guard across the awaits of its sends, so the mutex  *)
(* is a variable that broadcast holds over several steps.                  *)
(*                                                                         *)
(* Time: the connections share a clock that advances in quanta of         *)
(* HEARTBEAT_INTERVAL seconds (CLIENT_TIMEOUT is a multiple of it); the    *)
(* sleep of a token's expiry task is a timer that completes once           *)
(* TOKEN_EXPIRATION seconds have passed for that token.  A timer never     *)
(* fires early; a task whose timer is due runs whenever the scheduler      *)
(* picks it.                                                               *)
(***************************************************************************)
EXTENDS Integers, FiniteSets, Sequences, TLC

\* ws.rs:25-27
HEARTBEAT_INTERVAL == 5
CLIENT_TIMEOUT == 10
TOKEN_EXPIRATION == 30

\* Number of tokens start_ws may issue in a run (Uuid::new_v4 values).
MaxTokens == 2
\* The count of successful redemptions of one token is kept up to this value.
MaxRedeemCount == 2

\* Uuid::new_v4() (ws.rs:75) returns a value never returned before; the
\* n-th call is modelled as returning n.  0 is a well-formed UUID that is
\* never issued.
Uuids == 1..MaxTokens
AllUuids == 0..MaxTokens
Quantum == HEARTBEAT_INTERVAL

NoData == [address |-> "none", private_key |-> "none"]

Min(a, b) == IF a < b THEN a ELSE b

EmptyMap == [x \in {} |-> NoData]
MapPut(m, k, v) == [x \in (DOMAIN m) \cup {k} |-> IF x = k THEN v ELSE m[x]]
MapDel(m, k) == [x \in (DOMAIN m) \ {k} |-> m[x]]

VARIABLES
    pending_tokens,  \* WebSocketServerInner.pending_tokens: Uuid -> token data
    sessions,        \* WebSocketServerInner.sessions: Uuid -> session data
    inner_lock,      \* holder of the Mutex around inner: "free" or "broadcast"
    next_uuid,       \* the next value of Uuid::new_v4()
    expiry,          \* per token: the expiry task spawned by obtain_token
    age,             \* per token: seconds its expiry task is known to have slept
    handler,         \* per token: the ws_handler call that redeemed it
    heartbeat,       \* per connection: position of the heartbeat task
    hb_due,          \* per connection: the interval's next tick is due
    since_alive,     \* per connection: Instant::now() - *alive, in seconds, kept
                     \* while the heartbeat task, its only reader, runs
    msg_task,        \* per connection: position of the message task
    cur_event,       \* per connection: topic of the (un)subscribe in progress
    closed,          \* per connection: Session's shared `closed` flag
    transport,       \* per connection: "up", or "gone" once the peer is gone
    bcast,           \* the broadcast call in progress and what it has done
    redeemed,        \* per token: number of use_token calls that returned Ok
    last_upgrade,    \* outcome of the most recent ws_handler call
    last_reply,      \* the most recent response sent by handle_websocket_message
    last_call        \* the most recent direct call of a registry operation

vars == <<pending_tokens, sessions, inner_lock, next_uuid, expiry, age, handler,
          heartbeat, hb_due, since_alive, msg_task, cur_event, closed, transport,
          bcast, redeemed, last_upgrade, last_reply, last_call>>

tokenVars == <<pending_tokens, next_uuid, expiry, age, redeemed>>
connVars == <<heartbeat, hb_due, since_alive, msg_task, cur_event, closed, transport>>

----------------------------------------------------------------------------
\* models/websocket.rs:35-43 and 88-117: the topics and their string forms.

Topics == {"Blocks", "OwnBlocks", "Transactions", "OwnTransactions",
           "Names", "OwnNames", "Motd"}

\* Display for WebSocketSubscriptionType (websocket.rs:105-117).
Display(topic) ==
    CASE topic = "Blocks" -> "blocks"
      [] topic = "OwnBlocks" -> "ownBlocks"
      [] topic = "Transactions" -> "transactions"
      [] topic = "OwnTransactions" -> "ownTransactions"
      [] topic = "Names" -> "names"
      [] topic = "OwnNames" -> "ownNames"
      [] topic = "Motd" -> "motd"

\* FromStr for WebSocketSubscriptionType (websocket.rs:88-103): Ok(topic)
\* or Err(()).
from_str(input) ==
    CASE input = "blocks" -> [ok |-> TRUE, topic |-> "Blocks"]
      [] input = "ownBlocks" -> [ok |-> TRUE, topic |-> "OwnBlocks"]
      [] input = "transactions" -> [ok |-> TRUE, topic |-> "Transactions"]
      [] input = "ownTransactions" -> [ok |-> TRUE, topic |-> "OwnTransactions"]
      [] input = "names" -> [ok |-> TRUE, topic |-> "Names"]
      [] input = "ownNames" -> [ok |-> TRUE, topic |-> "OwnNames"]
      [] input = "motd" -> [ok |-> TRUE, topic |-> "Motd"]
      [] OTHER -> [ok |-> FALSE, topic |-> "none"]

\* WebSocketSubscriptionType::is_valid, as ws.rs:324 and 349 use it: the
\* string parses.
is_valid(input) == from_str(input).ok

\* insert_session, ws.rs:50-53: the subscriptions of a new session.
DefaultSubscriptions == {"OwnTransactions", "Blocks"}

\* WebSocketSubscriptionList::all_subscriptions (websocket.rs:56-67).
all_subscriptions == Topics

----------------------------------------------------------------------------
\* The operations of WebSocketServer on the two maps (ws.rs:49-139).

\* ws.rs:49-63 with every topic for a session that holds a private key.
insert_session_by_credentials(s, uuid, data) ==
    MapPut(s, uuid, [address |-> data.address,
                     private_key |-> data.private_key,
                     subscriptions |-> IF data.private_key = "none"
                                       THEN DefaultSubscriptions
                                       ELSE all_subscriptions])

\* ws.rs:49-63
insert_session(s, uuid, data) ==
    MapPut(s, uuid, [address |-> data.address,
                     private_key |-> data.private_key,
                     subscriptions |-> DefaultSubscriptions])

\* ws.rs:65-68 with the removal left out.
cleanup_session_skip(s, uuid) == s

\* ws.rs:65-68
cleanup_session(s, uuid) == MapDel(s, uuid)

\* ws.rs:93-104 with a lookup in place of the removal.
use_token_keep(p, uuid) ==
    IF uuid \in DOMAIN p
    THEN [ok |-> TRUE, token |-> p[uuid], pending |-> p]
    ELSE [ok |-> FALSE, token |-> NoData, pending |-> p]

\* ws.rs:93-104: pending_tokens.remove(uuid), Ok(token) or Err.
use_token(p, uuid) ==
    IF uuid \in DOMAIN p
    THEN [ok |-> TRUE, token |-> p[uuid], pending |-> MapDel(p, uuid)]
    ELSE [ok |-> FALSE, token |-> NoData, pending |-> p]

\* ws.rs:106-116 with a topic that is present taken out again.
subscribe_to_event_toggle(s, uuid, event) ==
    IF uuid \in DOMAIN s
    THEN [s EXCEPT ![uuid].subscriptions =
              IF event \in @ THEN @ \ {event} ELSE @ \cup {event}]
    ELSE s

\* ws.rs:106-116 with an entry created for a session that is absent.
subscribe_to_event_upsert(s, uuid, event) ==
    IF uuid \in DOMAIN s
    THEN [s EXCEPT ![uuid].subscriptions = @ \cup {event}]
    ELSE MapPut(s, uuid, [address |-> "guest", private_key |-> "none",
                          subscriptions |-> {event}])

\* ws.rs:106-116
subscribe_to_event(s, uuid, event) ==
    IF uuid \in DOMAIN s
    THEN [s EXCEPT ![uuid].subscriptions = @ \cup {event}]
    ELSE s

\* ws.rs:118-126
unsubscribe_from_event(s, uuid, event) ==
    IF uuid \in DOMAIN s
    THEN [s EXCEPT ![uuid].subscriptions = @ \ {event}]
    ELSE s

\* ws.rs:128-139 with the default list in place of the session's own.
get_subscription_list_default(s, uuid) ==
    IF uuid \in DOMAIN s THEN DefaultSubscriptions ELSE {}

\* ws.rs:128-139: the topics of the session, none when it is absent.
get_subscription_list(s, uuid) ==
    IF uuid \in DOMAIN s THEN s[uuid].subscriptions ELSE {}

\* Session::text / ping / pong on a handle: Err once the session was closed
\* (by any clone) or the receiving side is gone.
SendOk(c) == ~closed[c] /\ transport[c] = "up"

\* No direct call made yet.
NoCall == [op |-> "none", uuid |-> 0, event |-> "none", present |-> FALSE,
           had |-> FALSE, list |-> {}]

----------------------------------------------------------------------------
Init ==
    /\ pending_tokens = EmptyMap
    /\ sessions = EmptyMap
    /\ inner_lock = "free"
    /\ next_uuid = 1
    /\ expiry = [t \in AllUuids |-> "none"]
    /\ age = [t \in AllUuids |-> 0]
    /\ handler = [t \in AllUuids |-> [pc |-> "none", data |-> NoData]]
    /\ heartbeat = [t \in AllUuids |-> "none"]
    /\ hb_due = [t \in AllUuids |-> FALSE]
    /\ since_alive = [t \in AllUuids |-> 0]
    /\ msg_task = [t \in AllUuids |-> "none"]
    /\ cur_event = [t \in AllUuids |-> "none"]
    /\ closed = [t \in AllUuids |-> FALSE]
    /\ transport = [t \in AllUuids |-> "up"]
    /\ bcast = [pc |-> "idle", snapshot |-> {}, pending |-> {}, ok |-> {}, err |-> {}]
    /\ redeemed = [t \in AllUuids |-> 0]
    /\ last_upgrade = [result |-> "none", was |-> "none"]
    /\ last_reply = [to |-> 0, responding_to |-> "none", subscription_level |-> {}]
    /\ last_call = NoCall

----------------------------------------------------------------------------
\* The inputs of the two HTTP handlers.

\* start_ws, ws.rs:171: the body's `privatekey`, absent or present.
PrivateKeys == {"none", "key"}

\* ws_handler, ws.rs:204: the {token} path segment, a string that is the
\* text of a UUID or is not.
Paths == {[text |-> "junk", uuid |-> 0]} \cup {[text |-> "uuid", uuid |-> u] : u \in AllUuids}

\* Uuid::from_str (ws.rs:213): Ok(uuid) or Err.
Uuid_from_str(path) ==
    IF path.text = "uuid" THEN [ok |-> TRUE, uuid |-> path.uuid]
    ELSE [ok |-> FALSE, uuid |-> 0]

\* start_ws, ws.rs:173-185: the token data of a handshake.
TokenDataOf(private_key) ==
    IF private_key = "none"
    THEN [address |-> "guest", private_key |-> "none"]
    ELSE [address |-> "dummyaddr", private_key |-> private_key]

\* obtain_token, ws.rs:77: the insertion into pending_tokens.
obtain_token(p, uuid, token_data) == MapPut(p, uuid, token_data)

\* ws.rs:83-87 with every pending token removed.
expire_token_clear(p, uuid) == EmptyMap

\* obtain_token, ws.rs:83-87: what the expiry task does once it has the lock.
expire_token(p, uuid) == IF uuid \in DOMAIN p THEN MapDel(p, uuid) ELSE p

\* ws.rs:214-217 with a guest session in place of the panic.
expect_token_or_guest(r) ==
    IF r.ok THEN [panic |-> FALSE, data |-> r.token]
    ELSE [panic |-> FALSE, data |-> TokenDataOf("none")]

\* ws_handler, ws.rs:214-217: use_token(..).await.expect(..) yields the token
\* data or panics.
expect_token(r) ==
    IF r.ok THEN [panic |-> FALSE, data |-> r.token]
    ELSE [panic |-> TRUE, data |-> NoData]

\* What a token ID is to the store when an upgrade names it.
TokenFate(uuid) ==
    IF uuid \in DOMAIN pending_tokens THEN "pending"
    ELSE IF uuid \notin Uuids \/ uuid >= next_uuid THEN "unknown"
    ELSE IF redeemed[uuid] > 0 THEN "redeemed"
    ELSE "expired"

----------------------------------------------------------------------------
\* TOKEN_EXPIRATION seconds have passed since obtain_token issued t: the
\* sleep of ws.rs:81 completes.
TokenTimer(t) ==
    /\ expiry[t] = "sleeping"
    /\ age[t] < TOKEN_EXPIRATION
    /\ age' = [age EXCEPT ![t] = TOKEN_EXPIRATION]
    /\ UNCHANGED <<pending_tokens, sessions, inner_lock, next_uuid, expiry, handler,
                   connVars, bcast, redeemed, last_upgrade, last_reply, last_call>>

\* The clock of the connections: a quantum of time passes.  The `alive`
\* instants of running heartbeats age, and every interval ticks.
Advance ==
    /\ \E c \in AllUuids : heartbeat[c] \in {"interval", "check"}
    /\ since_alive' = [c \in AllUuids |->
                 IF heartbeat[c] \in {"interval", "check"}
                 THEN Min(since_alive[c] + Quantum, CLIENT_TIMEOUT + Quantum)
                 ELSE since_alive[c]]
    /\ hb_due' = [c \in AllUuids |->
                 IF heartbeat[c] \in {"interval", "check"} THEN TRUE ELSE hb_due[c]]
    /\ UNCHANGED <<tokenVars, sessions, inner_lock, handler, heartbeat, msg_task,
                   cur_event, closed, transport, bcast, last_upgrade, last_reply, last_call>>

\* POST /ws/start, ws.rs:166-194, with obtain_token, ws.rs:71-91.
StartWs(private_key) ==
    /\ inner_lock = "free"
    /\ next_uuid <= MaxTokens
    /\ pending_tokens' = obtain_token(pending_tokens, next_uuid, TokenDataOf(private_key))
    /\ expiry' = [expiry EXCEPT ![next_uuid] = "sleeping"]
    /\ age' = [age EXCEPT ![next_uuid] = 0]
    /\ next_uuid' = next_uuid + 1
    /\ UNCHANGED <<sessions, inner_lock, handler, connVars, bcast, redeemed,
                   last_upgrade, last_reply, last_call>>

\* The task spawned at ws.rs:80-88, after its sleep of TOKEN_EXPIRATION.
ExpireToken(t) ==
    /\ expiry[t] = "sleeping"
    /\ age[t] >= TOKEN_EXPIRATION
    /\ inner_lock = "free"
    /\ pending_tokens' = expire_token(pending_tokens, t)
    /\ expiry' = [expiry EXCEPT ![t] = "done"]
    /\ age' = [age EXCEPT ![t] = 0]
    /\ UNCHANGED <<sessions, inner_lock, next_uuid, handler, connVars, bcast,
                   redeemed, last_upgrade, last_reply, last_call>>

\* GET /gateway/{token}, ws.rs:196-217: the path is parsed and the token is
\* redeemed.  A path that is no UUID is a bad request; a failed redemption
\* panics in the handler; a redeemed token leaves the handler before its
\* insert_session.
WsHandler(path) ==
    LET parsed == Uuid_from_str(path)
        r == use_token(pending_tokens, parsed.uuid)
        got == expect_token(r)
    IN  IF ~parsed.ok
        THEN /\ last_upgrade' = [result |-> "bad_request", was |-> "none"]
             /\ UNCHANGED <<pending_tokens, sessions, inner_lock, next_uuid, expiry,
                            age, handler, connVars, bcast, redeemed, last_reply, last_call>>
        ELSE /\ inner_lock = "free"
             /\ pending_tokens' = r.pending
             /\ redeemed' = IF r.ok
                            THEN [redeemed EXCEPT ![parsed.uuid] =
                                      Min(@ + 1, MaxRedeemCount)]
                            ELSE redeemed
             /\ last_upgrade' = [result |-> IF got.panic THEN "panic" ELSE "accepted",
                                 was |-> TokenFate(parsed.uuid)]
             /\ handler' = IF got.panic THEN handler
                           ELSE [handler EXCEPT ![parsed.uuid] =
                                     [pc |-> "insert", data |-> got.data]]
             /\ UNCHANGED <<sessions, inner_lock, next_uuid, expiry, age, connVars,
                            bcast, last_reply, last_call>>

\* ws_handler, ws.rs:219-283: the session is inserted under the token's ID,
\* `alive` is set to now, both tasks are spawned and the response returned.
\* The interval's first tick completes at once (ws.rs:228-231).
InsertSession(c) ==
    /\ handler[c].pc = "insert"
    /\ inner_lock = "free"
    /\ sessions' = insert_session(sessions, c, handler[c].data)
    /\ handler' = [handler EXCEPT ![c] = [pc |-> "done", data |-> NoData]]
    /\ heartbeat' = [heartbeat EXCEPT ![c] = "interval"]
    /\ hb_due' = [hb_due EXCEPT ![c] = TRUE]
    /\ since_alive' = [since_alive EXCEPT ![c] = 0]
    /\ msg_task' = [msg_task EXCEPT ![c] = "recv"]
    /\ cur_event' = [cur_event EXCEPT ![c] = "none"]
    /\ closed' = [closed EXCEPT ![c] = FALSE]
    /\ transport' = [transport EXCEPT ![c] = "up"]
    /\ UNCHANGED <<tokenVars, inner_lock, bcast, last_upgrade, last_reply, last_call>>

----------------------------------------------------------------------------
\* The heartbeat task of a connection, ws.rs:227-241.

\* ws.rs:231-234: a tick of the interval, then the ping; a failed ping ends
\* the task.
HeartbeatPing(c) ==
    /\ heartbeat[c] = "interval"
    /\ hb_due[c]
    /\ hb_due' = [hb_due EXCEPT ![c] = FALSE]
    /\ heartbeat' = [heartbeat EXCEPT ![c] =
                        IF SendOk(c) THEN "check" ELSE "ping_failed"]
    /\ since_alive' = IF SendOk(c) THEN since_alive
                      ELSE [since_alive EXCEPT ![c] = 0]
    /\ UNCHANGED <<tokenVars, sessions, inner_lock, handler, msg_task, cur_event,
                   closed, transport, bcast, last_upgrade, last_reply, last_call>>

\* ws.rs:236: the test of the time since `alive`.
timed_out(elapsed) == elapsed > CLIENT_TIMEOUT

\* ws.rs:236-239: past the timeout the session is closed and the task ends.
HeartbeatCheck(c) ==
    /\ heartbeat[c] = "check"
    /\ IF timed_out(since_alive[c])
       THEN /\ closed' = [closed EXCEPT ![c] = TRUE]
            /\ heartbeat' = [heartbeat EXCEPT ![c] = "timed_out"]
            /\ hb_due' = [hb_due EXCEPT ![c] = FALSE]
            /\ since_alive' = [since_alive EXCEPT ![c] = 0]
       ELSE /\ heartbeat' = [heartbeat EXCEPT ![c] = "interval"]
            /\ UNCHANGED <<closed, hb_due, since_alive>>
    /\ UNCHANGED <<tokenVars, sessions, inner_lock, handler, msg_task, cur_event,
                   transport, bcast, last_upgrade, last_reply, last_call>>

----------------------------------------------------------------------------
\* The inbound text frames, models/websocket/messages.rs.

\* messages.rs:15-73: the `type` tags serde accepts.
IgnoredKinds == {"hello", "keepalive", "response"}
TodoKinds == {"make_transaction", "get_valid_subscription_levels", "address",
              "me", "get_subscription_level", "logout", "login"}
Kinds == IgnoredKinds \cup TodoKinds \cup {"work", "subscribe", "unsubscribe"}

\* The text frames a client sends in the model: json says whether the text
\* is JSON at all, event is "absent" when the object has no such field.
Texts ==
    {[json |-> FALSE, type |-> "none", event |-> "absent"],
     [json |-> TRUE, type |-> "bogus", event |-> "absent"],
     [json |-> TRUE, type |-> "subscribe", event |-> "absent"],
     [json |-> TRUE, type |-> "hello", event |-> "absent"],
     [json |-> TRUE, type |-> "work", event |-> "absent"],
     [json |-> TRUE, type |-> "get_valid_subscription_levels", event |-> "absent"]}
    \cup {[json |-> TRUE, type |-> k, event |-> e] :
            k \in {"subscribe", "unsubscribe"},
            e \in {"blocks", "ownTransactions", "not-a-real-topic"}}

\* serde_json::from_str::<WebSocketMessage> (ws.rs:255-256): Err for text
\* that is no JSON, for an unknown `type` and for a missing field.
decode(text) ==
    IF  \/ ~text.json
        \/ text.type \notin Kinds
        \/ (text.type \in {"subscribe", "unsubscribe"} /\ text.event = "absent")
    THEN [ok |-> FALSE, type |-> "none", event |-> "absent"]
    ELSE [ok |-> TRUE, type |-> text.type, event |-> text.event]

\* ws.rs:329-332: the list rendered as strings.
Rendered(list) == {Display(x) : x \in list}

NoReply == [to |-> 0, responding_to |-> "none", subscription_level |-> {}]

\* let _ = session.text(message).await: the response reaches the client's
\* channel unless the send fails; the failure is dropped.
Reply(c, kind, list) ==
    IF SendOk(c)
    THEN [to |-> c, responding_to |-> kind, subscription_level |-> list]
    ELSE last_reply

----------------------------------------------------------------------------
\* The message task of a connection, ws.rs:244-281.

\* ws.rs:247-252: a ping is answered with a pong; a failed pong returns.
RecvPing(c) ==
    /\ msg_task[c] = "recv"
    /\ transport[c] = "up"
    /\ msg_task' = [msg_task EXCEPT ![c] = IF SendOk(c) THEN "recv" ELSE "pong_failed"]
    /\ UNCHANGED <<tokenVars, sessions, inner_lock, handler, heartbeat, hb_due,
                   since_alive, cur_event, closed, transport, bcast, last_upgrade, last_call,
                   last_reply>>

\* ws.rs:271-273: a pong sets `alive` to now.
RecvPong(c) ==
    /\ msg_task[c] = "recv"
    /\ transport[c] = "up"
    /\ since_alive' = [since_alive EXCEPT ![c] = 0]
    /\ UNCHANGED <<tokenVars, sessions, inner_lock, handler, heartbeat, hb_due,
                   msg_task, cur_event, closed, transport, bcast, last_upgrade, last_call,
                   last_reply>>

\* ws.rs:275: any other frame is ignored.
RecvBinary(c) ==
    /\ msg_task[c] = "recv"
    /\ transport[c] = "up"
    /\ UNCHANGED vars

\* ws.rs:254-260 with handle_websocket_message, ws.rs:286-374, up to its
\* first await on the server: the frame is decoded (a decode error panics),
\* then dispatched on its kind.
RecvText(c, text) ==
    LET m == decode(text)
    IN  /\ msg_task[c] = "recv"
        /\ transport[c] = "up"
        /\ IF ~m.ok
           THEN /\ msg_task' = [msg_task EXCEPT ![c] = "panic_decode"]
                /\ UNCHANGED <<cur_event, last_reply>>
           ELSE IF m.type \in TodoKinds
           THEN /\ msg_task' = [msg_task EXCEPT ![c] = "panic_todo"]
                /\ UNCHANGED <<cur_event, last_reply>>
           ELSE IF m.type = "work"
           THEN /\ last_reply' = Reply(c, "work", {})
                /\ UNCHANGED <<msg_task, cur_event>>
           ELSE IF m.type \in {"subscribe", "unsubscribe"} /\ is_valid(m.event)
           THEN /\ msg_task' = [msg_task EXCEPT ![c] = m.type]
                /\ cur_event' = [cur_event EXCEPT ![c] = m.event]
                /\ UNCHANGED last_reply
           ELSE IF m.type \in {"subscribe", "unsubscribe"}
           THEN /\ msg_task' = [msg_task EXCEPT ![c] = "invalid_topic"]
                /\ UNCHANGED <<cur_event, last_reply>>
           ELSE UNCHANGED <<msg_task, cur_event, last_reply>>
        /\ UNCHANGED <<tokenVars, sessions, inner_lock, handler, heartbeat, hb_due,
                       since_alive, closed, transport, bcast, last_upgrade, last_call>>

\* ws.rs:345-347 and 370-372 with the connection closed and its task ended.
InvalidTopic_close(c) ==
    /\ msg_task[c] = "invalid_topic"
    /\ msg_task' = [msg_task EXCEPT ![c] = "cleanup_close"]
    /\ closed' = [closed EXCEPT ![c] = TRUE]
    /\ UNCHANGED <<tokenVars, sessions, inner_lock, handler, heartbeat, hb_due,
                   since_alive, cur_event, transport, bcast, last_upgrade,
                   last_reply, last_call>>

\* ws.rs:345-347 and 370-372: the else branch of an event that is no topic
\* holds a comment only; handle_websocket_message returns and the loop
\* takes the next frame.
InvalidTopic(c) ==
    /\ msg_task[c] = "invalid_topic"
    /\ msg_task' = [msg_task EXCEPT ![c] = "recv"]
    /\ UNCHANGED <<tokenVars, sessions, inner_lock, handler, heartbeat, hb_due,
                   since_alive, cur_event, closed, transport, bcast, last_upgrade,
                   last_reply, last_call>>

\* ws.rs:325-326: server.subscribe_to_event(uuid, event).
Subscribe(c) ==
    /\ msg_task[c] = "subscribe"
    /\ inner_lock = "free"
    /\ sessions' = subscribe_to_event(sessions, c, from_str(cur_event[c]).topic)
    /\ msg_task' = [msg_task EXCEPT ![c] = "subscribe_list"]
    /\ UNCHANGED <<tokenVars, inner_lock, handler, heartbeat, hb_due, since_alive,
                   cur_event, closed, transport, bcast, last_upgrade, last_reply, last_call>>

\* ws.rs:350-351: server.unsubscribe_from_event(uuid, &event).
Unsubscribe(c) ==
    /\ msg_task[c] = "unsubscribe"
    /\ inner_lock = "free"
    /\ sessions' = unsubscribe_from_event(sessions, c, from_str(cur_event[c]).topic)
    /\ msg_task' = [msg_task EXCEPT ![c] = "unsubscribe_list"]
    /\ UNCHANGED <<tokenVars, inner_lock, handler, heartbeat, hb_due, since_alive,
                   cur_event, closed, transport, bcast, last_upgrade, last_reply, last_call>>

\* ws.rs:328-343 and 353-368: get_subscription_list, then the response.
SubscriptionReply(c) ==
    /\ msg_task[c] \in {"subscribe_list", "unsubscribe_list"}
    /\ inner_lock = "free"
    /\ last_reply' = Reply(c,
                           IF msg_task[c] = "subscribe_list"
                           THEN "subscribe" ELSE "unsubscribe",
                           Rendered(get_subscription_list(sessions, c)))
    /\ msg_task' = [msg_task EXCEPT ![c] = "recv"]
    /\ cur_event' = [cur_event EXCEPT ![c] = "none"]
    /\ UNCHANGED <<tokenVars, sessions, inner_lock, handler, heartbeat, hb_due,
                   since_alive, closed, transport, bcast, last_upgrade, last_call>>

\* ws.rs:262-264: a Close frame closes the session; cleanup_session follows.
\* The task reads no further frame and every later send fails on the closed
\* session: the connection is over, whatever its peer does.
RecvClose(c) ==
    /\ msg_task[c] = "recv"
    /\ transport[c] = "up"
    /\ closed' = [closed EXCEPT ![c] = TRUE]
    /\ transport' = [transport EXCEPT ![c] = "gone"]
    /\ msg_task' = [msg_task EXCEPT ![c] = "cleanup_close"]
    /\ UNCHANGED <<tokenVars, sessions, inner_lock, handler, heartbeat, hb_due,
                   since_alive, cur_event, bcast, last_upgrade, last_reply, last_call>>

\* ws.rs:245 and 279: recv() yields None (the peer is gone) or an error
\* item; the loop is left and the session closed; cleanup_session follows.
\* The connection is over, as after a Close frame.
RecvEnd(c) ==
    /\ msg_task[c] = "recv"
    /\ closed' = [closed EXCEPT ![c] = TRUE]
    /\ transport' = [transport EXCEPT ![c] = "gone"]
    /\ msg_task' = [msg_task EXCEPT ![c] = "cleanup_end"]
    /\ UNCHANGED <<tokenVars, sessions, inner_lock, handler, heartbeat, hb_due,
                   since_alive, cur_event, bcast, last_upgrade, last_reply, last_call>>

\* ws.rs:266-268 and 280: server.cleanup_session(&token), then the task ends.
Cleanup(c) ==
    /\ msg_task[c] \in {"cleanup_close", "cleanup_end"}
    /\ inner_lock = "free"
    /\ sessions' = cleanup_session(sessions, c)
    /\ msg_task' = [msg_task EXCEPT ![c] = "done"]
    /\ UNCHANGED <<tokenVars, inner_lock, handler, heartbeat, hb_due, since_alive,
                   cur_event, closed, transport, bcast, last_upgrade, last_reply, last_call>>

\* The peer of an upgraded connection goes away: sends to it fail from now.
\* Once the session is closed the sends fail anyway, and the loss of the
\* peer is no event of its own.
Disconnect(c) ==
    /\ handler[c].pc = "done"
    /\ transport[c] = "up"
    /\ ~closed[c]
    /\ transport' = [transport EXCEPT ![c] = "gone"]
    /\ UNCHANGED <<tokenVars, sessions, inner_lock, handler, heartbeat, hb_due,
                   since_alive, msg_task, cur_event, closed, bcast, last_upgrade, last_call,
                   last_reply>>

----------------------------------------------------------------------------
\* broadcast, ws.rs:142-163, called by the index handler (main.rs:12-22).

\* ws.rs:158 with a return on the first failed send.
broadcast_done_abort(b) == b.pending = {} \/ b.err # {}

\* ws.rs:158: the loop ends when FuturesUnordered has no future left.
broadcast_done(b) == b.pending = {}

\* ws.rs:146 with the sessions that subscribe to nothing left out.
broadcast_targets_subscribed(s) == {c \in DOMAIN s : s[c].subscriptions # {}}

\* ws.rs:146: inner.sessions.iter_mut(), every entry of the registry.
broadcast_targets(s) == DOMAIN s

\* ws.rs:143-152: the lock is taken and one send is queued per session.
BroadcastStart ==
    /\ bcast.pc = "idle"
    /\ inner_lock = "free"
    /\ inner_lock' = "broadcast"
    /\ bcast' = [pc |-> "sending", snapshot |-> broadcast_targets(sessions),
                 pending |-> broadcast_targets(sessions), ok |-> {}, err |-> {}]
    /\ UNCHANGED <<tokenVars, sessions, handler, connVars, last_upgrade, last_reply, last_call>>

\* ws.rs:152-161: one queued send completes, with Ok or with an error that
\* is logged.
BroadcastSend(c) ==
    /\ bcast.pc = "sending"
    /\ ~broadcast_done(bcast)
    /\ c \in bcast.pending
    /\ bcast' = IF SendOk(c)
                THEN [bcast EXCEPT !.pending = @ \ {c}, !.ok = @ \cup {c}]
                ELSE [bcast EXCEPT !.pending = @ \ {c}, !.err = @ \cup {c}]
    /\ UNCHANGED <<tokenVars, sessions, inner_lock, handler, connVars, last_upgrade, last_call,
                   last_reply>>

\* ws.rs:163: broadcast returns and the guard is dropped.
BroadcastReturn ==
    /\ bcast.pc = "sending"
    /\ broadcast_done(bcast)
    /\ inner_lock' = "free"
    /\ bcast' = [pc |-> "idle", snapshot |-> {}, pending |-> {}, ok |-> {}, err |-> {}]
    /\ UNCHANGED <<tokenVars, sessions, handler, connVars, last_upgrade, last_reply, last_call>>

----------------------------------------------------------------------------
Next ==
    \/ Advance
    \/ \E k \in PrivateKeys : StartWs(k)
    \/ \E t \in Uuids : TokenTimer(t)
    \/ \E t \in Uuids : ExpireToken(t)
    \/ \E p \in Paths : WsHandler(p)
    \/ \E c \in AllUuids : InsertSession(c)
    \/ \E c \in AllUuids : HeartbeatPing(c)
    \/ \E c \in AllUuids : HeartbeatCheck(c)
    \/ \E c \in AllUuids : RecvPing(c)
    \/ \E c \in AllUuids : RecvPong(c)
    \/ \E c \in AllUuids : RecvBinary(c)
    \/ \E c \in AllUuids, text \in Texts : RecvText(c, text)
    \/ \E c \in AllUuids : InvalidTopic(c)
    \/ \E c \in AllUuids : Subscribe(c)
    \/ \E c \in AllUuids : Unsubscribe(c)
    \/ \E c \in AllUuids : SubscriptionReply(c)
    \/ \E c \in AllUuids : RecvClose(c)
    \/ \E c \in AllUuids : RecvEnd(c)
    \/ \E c \in AllUuids : Cleanup(c)
    \/ \E c \in AllUuids : Disconnect(c)
    \/ BroadcastStart
    \/ \E c \in AllUuids : BroadcastSend(c)
    \/ BroadcastReturn

Spec == Init /\ [][Next]_vars

----------------------------------------------------------------------------
\* Runs of the gateway in which the clients and the scheduler do only part
\* of what Next allows; every such run is a run of Spec.

\* The broker: handshakes, upgrades, expiry, broadcasts, and connections
\* that end with a Close frame or the end of their stream.  No heartbeat
\* task is scheduled and no other frame arrives.
NextBroker ==
    \/ \E k \in PrivateKeys : StartWs(k)
    \/ \E t \in Uuids : TokenTimer(t)
    \/ \E t \in Uuids : ExpireToken(t)
    \/ \E p \in Paths : WsHandler(p)
    \/ \E c \in AllUuids : InsertSession(c)
    \/ \E c \in AllUuids : RecvClose(c)
    \/ \E c \in AllUuids : RecvEnd(c)
    \/ \E c \in AllUuids : Cleanup(c)
    \/ \E c \in AllUuids : Disconnect(c)
    \/ BroadcastStart
    \/ \E c \in AllUuids : BroadcastSend(c)
    \/ BroadcastReturn

SpecBroker == Init /\ [][NextBroker]_vars

\* The tokio Mutex hands the lock out in the order of the requests, so a
\* cleanup_session that waits for it gets it once its holders release it;
\* a broadcast goes on as its sends complete (with Ok or with an error).
FairSpecBroker ==
    /\ SpecBroker
    /\ \A c \in Uuids : SF_vars(Cleanup(c))
    /\ WF_vars(\E c \in AllUuids : BroadcastSend(c))
    /\ WF_vars(BroadcastReturn)

\* The connections: the heartbeat and message tasks of upgraded
\* connections under every kind of frame, the text frames being those that
\* are answered with no response.  Every upgrade names a pending token, no
\* token expires and nothing is broadcast.
NextConn ==
    \/ Advance
    \/ \E k \in PrivateKeys : StartWs(k)
    \/ \E p \in Paths :
          /\ Uuid_from_str(p).ok
          /\ p.uuid \in DOMAIN pending_tokens
          /\ WsHandler(p)
    \/ \E c \in AllUuids : InsertSession(c)
    \/ \E c \in AllUuids : HeartbeatPing(c)
    \/ \E c \in AllUuids : HeartbeatCheck(c)
    \/ \E c \in AllUuids : RecvPing(c)
    \/ \E c \in AllUuids : RecvPong(c)
    \/ \E c \in AllUuids : RecvBinary(c)
    \/ \E c \in AllUuids, text \in Texts :
          /\ decode(text).type \notin {"subscribe", "unsubscribe", "work"}
          /\ RecvText(c, text)
    \/ \E c \in AllUuids : RecvClose(c)
    \/ \E c \in AllUuids : RecvEnd(c)
    \/ \E c \in AllUuids : Cleanup(c)
    \/ \E c \in AllUuids : Disconnect(c)

SpecConn == Init /\ [][NextConn]_vars

\* The subscriptions: upgraded connections under every text frame of Texts,
\* with peers that may go away.  Every upgrade names a pending token, no
\* token expires, no heartbeat task is scheduled, nothing is broadcast and
\* no connection receives a Close frame.
NextSub ==
    \/ \E k \in PrivateKeys : StartWs(k)
    \/ \E p \in Paths :
          /\ Uuid_from_str(p).ok
          /\ p.uuid \in DOMAIN pending_tokens
          /\ WsHandler(p)
    \/ \E c \in AllUuids : InsertSession(c)
    \/ \E c \in AllUuids, text \in Texts : RecvText(c, text)
    \/ \E c \in AllUuids : InvalidTopic(c)
    \/ \E c \in AllUuids : Subscribe(c)
    \/ \E c \in AllUuids : Unsubscribe(c)
    \/ \E c \in AllUuids : SubscriptionReply(c)
    \/ \E c \in AllUuids : Disconnect(c)

SpecSub == Init /\ [][NextSub]_vars

\* The broadcasts: upgraded connections that unsubscribe from topics, are
\* closed by their peers or lose them, while payloads are broadcast.  Every
\* upgrade names a pending token, no token expires and no heartbeat task
\* is scheduled.
NextCast ==
    \/ \E k \in PrivateKeys : StartWs(k)
    \/ \E p \in Paths :
          /\ Uuid_from_str(p).ok
          /\ p.uuid \in DOMAIN pending_tokens
          /\ WsHandler(p)
    \/ \E c \in AllUuids : InsertSession(c)
    \/ \E c \in AllUuids, text \in Texts :
          /\ decode(text).type = "unsubscribe"
          /\ is_valid(decode(text).event)
          /\ RecvText(c, text)
    \/ \E c \in AllUuids : Unsubscribe(c)
    \/ \E c \in AllUuids : SubscriptionReply(c)
    \/ \E c \in AllUuids : RecvClose(c)
    \/ \E c \in AllUuids : Cleanup(c)
    \/ \E c \in AllUuids : Disconnect(c)
    \/ BroadcastStart
    \/ \E c \in AllUuids : BroadcastSend(c)
    \/ BroadcastReturn

SpecCast == Init /\ [][NextCast]_vars

----------------------------------------------------------------------------
\* The registry operations of WebSocketServer (ws.rs:65-139) called
\* directly, with any ID and any topic of CallTopics, on the registries
\* that handshakes and upgrades build.

CallTopics == {"Blocks", "Motd"}

CallOf(op, uuid, event) ==
    [op |-> op, uuid |-> uuid, event |-> event,
     present |-> uuid \in DOMAIN sessions,
     had |-> event \in get_subscription_list(sessions, uuid),
     list |-> {}]

\* ws.rs:106-116
CallSubscribe(uuid, event) ==
    /\ inner_lock = "free"
    /\ sessions' = subscribe_to_event(sessions, uuid, event)
    /\ last_call' = CallOf("subscribe_to_event", uuid, event)
    /\ UNCHANGED <<tokenVars, inner_lock, handler, connVars, bcast, last_upgrade,
                   last_reply>>

\* ws.rs:118-126
CallUnsubscribe(uuid, event) ==
    /\ inner_lock = "free"
    /\ sessions' = unsubscribe_from_event(sessions, uuid, event)
    /\ last_call' = CallOf("unsubscribe_from_event", uuid, event)
    /\ UNCHANGED <<tokenVars, inner_lock, handler, connVars, bcast, last_upgrade,
                   last_reply>>

\* ws.rs:128-139
CallList(uuid) ==
    /\ inner_lock = "free"
    /\ last_call' = [CallOf("get_subscription_list", uuid, "none")
                        EXCEPT !.list = get_subscription_list(sessions, uuid)]
    /\ UNCHANGED <<tokenVars, sessions, inner_lock, handler, connVars, bcast,
                   last_upgrade, last_reply>>

\* ws.rs:65-68
CallCleanup(uuid) ==
    /\ inner_lock = "free"
    /\ sessions' = cleanup_session(sessions, uuid)
    /\ last_call' = CallOf("cleanup_session", uuid, "none")
    /\ UNCHANGED <<tokenVars, inner_lock, handler, connVars, bcast, last_upgrade,
                   last_reply>>

NextOps ==
    \/ \E k \in PrivateKeys : StartWs(k)
    \/ \E p \in Paths :
          /\ Uuid_from_str(p).ok
          /\ p.uuid \in DOMAIN pending_tokens
          /\ WsHandler(p)
    \/ \E c \in AllUuids : InsertSession(c)
    \/ \E u \in AllUuids, t \in CallTopics : CallSubscribe(u, t)
    \/ \E u \in AllUuids, t \in CallTopics : CallUnsubscribe(u, t)
    \/ \E u \in AllUuids : CallList(u)
    \/ \E u \in AllUuids : CallCleanup(u)

SpecOps == Init /\ [][NextOps]_vars

----------------------------------------------------------------------------
\* Properties.

Issued == 1..(next_uuid - 1)
Registered == DOMAIN sessions
MsgTaskEnded(c) == msg_task[c] \in {"done", "pong_failed", "panic_decode", "panic_todo"}

\* C1: over any interleaving of use_token calls for an issued token, at
\* most one call returns the credentials, and once one has, the token is no
\* longer pending, so every later call fails with not-found.
C1_RedeemAtMostOnce ==
    \A t \in AllUuids :
        /\ redeemed[t] <= 1
        /\ redeemed[t] = 1 => t \notin DOMAIN pending_tokens

\* C1, its case: a token was redeemed and a later upgrade naming it failed.
C1_Witness ==
    /\ last_upgrade = [result |-> "panic", was |-> "redeemed"]
    /\ \E t \in Uuids : redeemed[t] = 1

\* C2: a use_token call that starts once TOKEN_EXPIRATION seconds have
\* passed since obtain_token fails, also when it runs before the expiry task
\* has taken the lock.
C2_ExpiredTokenUnredeemable ==
    [][\A p \in Paths :
          (/\ Uuid_from_str(p).ok
           /\ expiry[p.uuid] = "sleeping"
           /\ age[p.uuid] >= TOKEN_EXPIRATION
           /\ WsHandler(p))
          => last_upgrade'.result = "panic"]_vars

\* C3: an upgrade whose well-formed token is not pending (unknown, expired
\* or already redeemed) is rejected: it leaves the registry as it is, and no
\* handler goes on to insert a session, for a guest or anyone.
C3_RejectedUpgradeInsertsNothing ==
    [][\A p \in Paths :
          (/\ Uuid_from_str(p).ok
           /\ p.uuid \notin DOMAIN pending_tokens
           /\ WsHandler(p))
          => /\ last_upgrade'.result = "panic"
             /\ sessions' = sessions
             /\ handler' = handler]_vars

\* C3, its case: with a session registered, an upgrade named a token that
\* had expired, and was rejected.
C3_Witness ==
    /\ last_upgrade = [result |-> "panic", was |-> "expired"]
    /\ Registered # {}
    /\ \A c \in AllUuids : handler[c].pc # "insert"

\* C4: broadcast returns only when every session of the registry it
\* iterated has had its send, those whose send failed and the others alike,
\* and then it returns normally; a failed send ends no broadcast early.
C4_BroadcastSendsToAll ==
    [][(bcast.pc = "sending" /\ bcast'.pc # "sending") =>
          /\ bcast'.pc = "idle"
          /\ inner_lock' = "free"
          /\ bcast.pending = {}
          /\ bcast.snapshot = Registered
          /\ bcast.ok \cup bcast.err = bcast.snapshot
          /\ bcast.ok \cap bcast.err = {}]_vars

\* C4, its case: a broadcast over two sessions or more is about to return;
\* one send has failed and the others were delivered.
C4_Witness ==
    /\ bcast.pc = "sending"
    /\ bcast.pending = {}
    /\ Cardinality(bcast.snapshot) >= 2
    /\ Cardinality(bcast.err) = 1
    /\ bcast.ok # {}

\* C5: while broadcast awaits its sends, an insert_session or a
\* cleanup_session of another task can complete.
C5_BroadcastDoesNotBlockRegistry ==
    \A c \in AllUuids :
        bcast.pc = "sending" =>
            /\ handler[c].pc = "insert" => ENABLED InsertSession(c)
            /\ msg_task[c] \in {"cleanup_close", "cleanup_end"} => ENABLED Cleanup(c)

\* C6: once the heartbeat has found no pong for more than CLIENT_TIMEOUT and
\* closed the connection, the session entry is removed: when neither task of
\* the connection is left to run, the entry is gone.
C6_TimeoutRemovesSession ==
    \A c \in AllUuids :
        (heartbeat[c] = "timed_out" /\ MsgTaskEnded(c)) => c \notin Registered

\* C7: when the message loop has ended on a text frame that does not
\* decode, the session entry is not registered any more.
C7_DecodeErrorRemovesSession ==
    \A c \in AllUuids : msg_task[c] = "panic_decode" => c \notin Registered

\* C8: when a task of the connection has ended on a failed ping or pong,
\* the session entry is removed: once no task of the connection is left to
\* run, the entry is gone.
C8_TransportErrorRemovesSession ==
    \A c \in AllUuids :
        /\ msg_task[c] = "pong_failed" => c \notin Registered
        /\ (heartbeat[c] = "ping_failed" /\ MsgTaskEnded(c)) => c \notin Registered

\* C9: after a Close frame or the end of the inbound stream the session
\* entry is eventually removed: the message task goes through
\* cleanup_session, after which the entry is absent, and once removed it is
\* never inserted again.
C9_CloseRemovesSession ==
    /\ \A c \in Uuids :
          (msg_task[c] \in {"cleanup_close", "cleanup_end"}) ~> (c \notin Registered)
    /\ [](\A c \in Uuids : msg_task[c] = "done" => c \notin Registered)
    /\ [][\A c \in Uuids :
            (msg_task[c] = "done" /\ c \notin Registered) => c \notin DOMAIN sessions']_vars

\* C9, its case: a connection got a Close frame or its stream ended, and its
\* entry was removed while another session stays registered.
C9_Witness ==
    \E c \in Uuids :
        /\ msg_task[c] = "done"
        /\ c \notin Registered
        /\ Registered # {}

\* C10, as stated: no ID issued as a token ID is ever the key of a session.
C10_NoSharedIdentifiers == Registered \cap Issued = {}

\* C10, amended: no ID is a pending token and the key of a session at the
\* same time; every session is keyed by the ID of an issued token that is no
\* longer pending.
C10_KeysDisjoint ==
    /\ DOMAIN pending_tokens \cap Registered = {}
    /\ Registered \subseteq Issued

\* C10, its case: a session is registered under the ID of a redeemed token
\* while another token is pending.
C10_Witness ==
    /\ \E c \in Registered : redeemed[c] = 1
    /\ DOMAIN pending_tokens # {}

\* C11: every session that insert_session adds to the registry starts with
\* the subscriptions ownTransactions and blocks and no other, whatever the
\* credentials of the redeemed token are.
C11_DefaultSubscriptions ==
    [][\A c \in Uuids :
          (c \notin DOMAIN sessions /\ c \in DOMAIN sessions')
              => /\ sessions'[c].subscriptions = {"OwnTransactions", "Blocks"}
                 /\ Rendered(sessions'[c].subscriptions) = {"ownTransactions", "blocks"}]_vars

\* A guest session and a session with a private key, both just inserted.
C11_Witness ==
    \E c, d \in Registered :
        /\ sessions[c].private_key = "none"
        /\ sessions[d].private_key = "key"
        /\ sessions[c].subscriptions = DefaultSubscriptions
        /\ sessions[d].subscriptions = DefaultSubscriptions
        /\ last_reply = NoReply

\* C12: for every registered session and every topic, subscribing to a
\* topic that is in the set leaves the registry as it is, subscribing
\* twice gives what subscribing once gives, and unsubscribing from a topic
\* that is not in the set leaves the registry as it is.
C12_SubscribeIdempotent ==
    \A u \in Registered, t \in Topics :
        LET once == subscribe_to_event(sessions, u, t)
        IN  /\ t \in sessions[u].subscriptions => once = sessions
            /\ subscribe_to_event(once, u, t) = once
            /\ once[u].subscriptions = sessions[u].subscriptions \cup {t}
            /\ t \notin sessions[u].subscriptions
                   => unsubscribe_from_event(sessions, u, t) = sessions

\* C12, its case: subscribe_to_event was called for a registered session
\* with a topic the session had, and the session lacks another topic.
C12_Witness ==
    /\ last_call.op = "subscribe_to_event"
    /\ last_call.present
    /\ last_call.had
    /\ last_call.uuid \in Registered
    /\ last_call.event \in sessions[last_call.uuid].subscriptions
    /\ "Blocks" \notin sessions[last_call.uuid].subscriptions

\* C13: a subscribe or unsubscribe message whose event is none of the seven
\* topics changes no subscription set, leaves the session registered and
\* the connection open, and the message task returns to taking frames.
C13_InvalidTopicChangesNothing ==
    [][\A c \in Uuids :
          /\ \A text \in Texts :
                 (/\ decode(text).ok
                  /\ decode(text).type \in {"subscribe", "unsubscribe"}
                  /\ ~from_str(decode(text).event).ok
                  /\ RecvText(c, text))
                     => /\ msg_task'[c] = "invalid_topic"
                        /\ sessions' = sessions
                        /\ closed' = closed
                        /\ c \in Registered
          /\ msg_task[c] = "invalid_topic"
                 => /\ c \in DOMAIN sessions'
                    /\ sessions'[c] = sessions[c]
                    /\ closed'[c] = closed[c]
                    /\ msg_task'[c] \in {"invalid_topic", "recv"}]_vars

\* C13, its case: a connection whose set is no longer the default one has
\* taken a message with an event that is no topic.
C13_Witness ==
    \E c \in Registered :
        /\ msg_task[c] = "invalid_topic"
        /\ sessions[c].subscriptions # DefaultSubscriptions
        /\ SendOk(c)

\* C14: a subscribe or unsubscribe message with an event that is no topic
\* is answered: when its handling ends on a connection that can be sent
\* to, a response has been sent to the client.
C14_InvalidTopicAnswered ==
    [][\A c \in Uuids :
          (msg_task[c] = "invalid_topic" /\ msg_task'[c] = "recv" /\ SendOk(c))
              => (last_reply' # last_reply /\ last_reply'.to = c)]_vars

\* C15: for a registered session with set S, a subscribe message with a
\* valid topic t makes the stored set S united with {t} and an unsubscribe
\* message makes it S without t; the set stays as it is until the reply,
\* and the reply sent on a connection that can be sent to lists exactly
\* the stored set, each topic once.
C15_ReplyIsStoredSet ==
    [][\A c \in Uuids :
          LET t == from_str(cur_event[c]).topic
          IN  /\ (msg_task[c] = "subscribe" /\ msg_task'[c] = "subscribe_list")
                     => /\ c \in Registered
                        /\ sessions'[c].subscriptions = sessions[c].subscriptions \cup {t}
              /\ (msg_task[c] = "unsubscribe" /\ msg_task'[c] = "unsubscribe_list")
                     => /\ c \in Registered
                        /\ sessions'[c].subscriptions = sessions[c].subscriptions \ {t}
              /\ msg_task[c] \in {"subscribe_list", "unsubscribe_list"}
                     => (c \in DOMAIN sessions' /\ sessions'[c] = sessions[c])
              /\ (/\ msg_task[c] \in {"subscribe_list", "unsubscribe_list"}
                  /\ msg_task'[c] = "recv"
                  /\ SendOk(c))
                     => /\ last_reply'.to = c
                        /\ last_reply'.responding_to =
                              (IF msg_task[c] = "subscribe_list"
                               THEN "subscribe" ELSE "unsubscribe")
                        /\ last_reply'.subscription_level =
                              {Display(x) : x \in sessions'[c].subscriptions}
                        /\ Cardinality(last_reply'.subscription_level) =
                              Cardinality(sessions'[c].subscriptions)]_vars

\* C15, its case: a session that had unsubscribed from both default topics
\* has been answered a subscribe to blocks with the list of blocks alone.
C15_Witness ==
    \E c \in Registered :
        /\ msg_task[c] = "recv"
        /\ sessions[c].subscriptions = {"Blocks"}
        /\ last_reply = [to |-> c, responding_to |-> "subscribe",
                         subscription_level |-> {"blocks"}]

\* C16: broadcast queues one send for every session that is registered
\* when it iterates the registry, whatever the session subscribes to, and
\* for no other connection; each queued send is made once, the registry
\* keeps its keys meanwhile, and at the return every registered session
\* has been sent to once, with Ok or with an error.
C16_BroadcastToEveryRegistered ==
    [][/\ (bcast.pc = "idle" /\ bcast'.pc = "sending")
             => /\ bcast'.snapshot = DOMAIN sessions
                /\ bcast'.pending = DOMAIN sessions
                /\ bcast'.ok \cup bcast'.err = {}
       /\ (bcast.pc = "sending" /\ bcast'.pc = "sending" /\ bcast' # bcast)
             => \E c \in bcast.pending :
                   /\ c \in Registered
                   /\ c \notin bcast.ok \cup bcast.err
                   /\ bcast'.pending = bcast.pending \ {c}
                   /\ bcast'.ok \cup bcast'.err = bcast.ok \cup bcast.err \cup {c}
                   /\ bcast'.snapshot = bcast.snapshot
       /\ bcast.pc = "sending" => DOMAIN sessions' = DOMAIN sessions
       /\ (bcast.pc = "sending" /\ bcast'.pc = "idle")
             => /\ bcast.ok \cup bcast.err = Registered
                /\ bcast.ok \cap bcast.err = {}]_vars

\* C16, its case: every send of a broadcast is made, one of them with Ok to
\* a session that subscribes to nothing, and none to a connection that was
\* removed from the registry before.
C16_Witness ==
    /\ bcast.pc = "sending"
    /\ bcast.pending = {}
    /\ \E c \in bcast.ok : sessions[c].subscriptions = {}
    /\ \E d \in Uuids : msg_task[d] = "done" /\ d \notin bcast.ok \cup bcast.err

\* C17: a get_valid_subscription_levels message on a registered connection
\* is answered with a response that lists all seven topics, and the message
\* task goes on taking frames.
C17_ValidSubscriptionLevelsAnswered ==
    [][\A c \in Uuids, text \in Texts :
          (/\ decode(text).ok
           /\ decode(text).type = "get_valid_subscription_levels"
           /\ c \in Registered
           /\ RecvText(c, text))
              => /\ msg_task'[c] = "recv"
                 /\ SendOk(c) =>
                        /\ last_reply'.to = c
                        /\ last_reply'.responding_to = "get_valid_subscription_levels"
                        /\ last_reply'.subscription_level =
                              {Display(x) : x \in all_subscriptions}]_vars

\* C18: for an ID with no entry in the registry, subscribe_to_event and
\* unsubscribe_from_event change nothing, get_subscription_list returns the
\* empty list and cleanup_session changes nothing; cleanup_session called
\* twice gives what one call gives; and every direct call that names an
\* absent ID leaves the registry as it is.
C18_AbsentSessionNoOp ==
    /\ [](\A u \in AllUuids \ Registered, t \in Topics :
             /\ subscribe_to_event(sessions, u, t) = sessions
             /\ unsubscribe_from_event(sessions, u, t) = sessions
             /\ get_subscription_list(sessions, u) = {}
             /\ cleanup_session(sessions, u) = sessions)
    /\ [](\A u \in AllUuids :
             LET removed == cleanup_session(sessions, u)
             IN  /\ u \notin DOMAIN removed
                 /\ cleanup_session(removed, u) = removed
                 /\ \A v \in DOMAIN sessions \ {u} :
                        v \in DOMAIN removed /\ removed[v] = sessions[v])
    /\ [][(last_call' # last_call /\ ~last_call'.present)
              => (sessions' = sessions /\ last_call'.list = {})]_vars

\* C18, its case: cleanup_session was called for a connection whose entry
\* had been removed before, while another session is registered.
C18_Witness ==
    /\ last_call.op = "cleanup_session"
    /\ ~last_call.present
    /\ handler[last_call.uuid].pc = "done"
    /\ last_call.uuid \notin Registered
    /\ Registered # {}

\* C19: in every state where the session entry of an upgraded connection
\* has been removed from the registry, the heartbeat task of that
\* connection has terminated.
C19_HeartbeatEndsWithEntry ==
    \A c \in Uuids :
        (handler[c].pc = "done" /\ c \notin Registered)
            => heartbeat[c] \notin {"interval", "check"}

\* C20: the expiry action of a token removes that token's pending entry if
\* it is still present and no other; when the token was redeemed before,
\* the action ends without error and leaves the pending tokens as they
\* are; in both cases it leaves the registry as it is.
C20_ExpiryRemovesOnlyItsToken ==
    [][\A t \in Uuids :
          (expiry[t] = "sleeping" /\ expiry'[t] # "sleeping")
              => /\ expiry'[t] = "done"
                 /\ sessions' = sessions
                 /\ t \notin DOMAIN pending_tokens => pending_tokens' = pending_tokens
                 /\ DOMAIN pending_tokens' = DOMAIN pending_tokens \ {t}
                 /\ \A u \in DOMAIN pending_tokens' :
                        pending_tokens'[u] = pending_tokens[u]]_vars

\* C20, its case: the expiry action of a redeemed token has run, the
\* session registered with that token is in the registry and another
\* token is pending.
C20_Witness ==
    \E t \in Registered :
        /\ expiry[t] = "done"
        /\ redeemed[t] = 1
        /\ DOMAIN pending_tokens # {}

\* C21: in every state no ID is both a pending token and the key of a
\* session, every key of a session is the ID of an issued token that
\* exactly one use_token call has redeemed, and a handler that is about to
\* insert finds no entry under its ID, so insert_session adds a new entry
\* and overwrites none.
C21_SessionKeysAreRedeemedTokens ==
    /\ [](/\ DOMAIN pending_tokens \cap DOMAIN sessions = {}
          /\ \A c \in DOMAIN sessions :
                 /\ c \in Issued
                 /\ redeemed[c] = 1
                 /\ handler[c].pc = "done"
          /\ \A c \in AllUuids :
                 handler[c].pc = "insert"
                     => /\ c \in Issued
                        /\ redeemed[c] = 1
                        /\ c \notin DOMAIN sessions
                        /\ c \notin DOMAIN pending_tokens)
    /\ [][\A c \in AllUuids :
              (handler[c].pc = "insert" /\ handler'[c].pc # "insert")
                  => /\ c \notin DOMAIN sessions
                     /\ DOMAIN sessions' = DOMAIN sessions \cup {c}
                     /\ \A d \in DOMAIN sessions : sessions'[d] = sessions[d]]_vars

\* C21, its case: two sessions are registered, each under the ID of a
\* token redeemed once, the second inserted while the first was live.
C21_Witness ==
    /\ Cardinality(DOMAIN sessions) = 2
    /\ \A c \in DOMAIN sessions : redeemed[c] = 1 /\ handler[c].pc = "done"
    /\ DOMAIN pending_tokens = {}

====
